---------------------------- MODULE Spec2Model ----------------------------
(***************************************************************************)
(* Model of the roguelike dungeon engine (src/src/rpg): the grid, the      *)
(* path finder, the dungeon generator and the assembled Dungeon.           *)
(*                                                                         *)
(* Three specifications share the variables:                               *)
(*   SpecFind    PathFinder.find, one action per iteration of its loop,    *)
(*               over every small grid, start and goal;                    *)
(*   SpecSample  the room sampling loop of _Generator.run with the         *)
(*               generator's own constants and free random draws;          *)
(*   Spec        one whole generation (_Generator.run), the Dungeon        *)
(*               constructor and the game ticks that follow, with every    *)
(*               length of the generator scaled down and the random draws  *)
(*               produced by a seeded generator, one seed per behaviour.   *)
(***************************************************************************)
EXTENDS Integers, Sequences, FiniteSets, TLC

VARIABLES
    pf,         \* PathFinder.find: its arguments and its locals
    data,       \* _Generator._data / Dungeon._data: the tile grid
    rooms,      \* _Generator._rooms
    cave_nooks, \* _Generator._cave_nooks
    rng,        \* state of the random generator
    pc,         \* position in _Generator.run / Dungeon.__init__ / the game
    cur,        \* loop counters of the stage in progress
    drunk,      \* _drunk_man: the locals of the walk in progress
    path,       \* the path being processed by _connect_pair_caves
    reported,   \* the values handed to the progress callback, in order
    failed,     \* pairs whose path finding raised PathNotFoundError
    fog_of_war, \* Dungeon._fog_of_war
    hero,       \* Dungeon._hero_position (shared with Hero._position)
    objects,    \* Dungeon._objects
    monsters,   \* Dungeon._monsters
    calls,      \* ghost: number of moves and update_visible calls so far
    nb,         \* a call of Grid.neighbours: its arguments and its outcome
    scene,      \* SceneProgress / RPG: _finished, _data, the scene shown
    attempted   \* ghost: pairs _connect_pair_caves / _rooms were called for

vars == <<pf, data, rooms, cave_nooks, rng, pc, cur, drunk, path, reported, failed,
          fog_of_war, hero, objects, monsters, calls, nb, scene, attempted>>

-----------------------------------------------------------------------------
(* Tiles (dungeon.py, class Tiles) *)
TILE_CAVE == -1
TILE_GROUND == 0
TILE_CORRIDOR == 1
TILE_FLOOR == 3
TILE_DOOR == 4
TILE_WALL_H == 5
TILE_WALL_V == 6
TILE_WALL_TL == 7
TILE_WALL_TR == 8
TILE_WALL_BL == 9
TILE_WALL_BR == 10

AllTiles == {TILE_CAVE, TILE_GROUND, TILE_CORRIDOR, TILE_FLOOR, TILE_DOOR,
             TILE_WALL_H, TILE_WALL_V, TILE_WALL_TL, TILE_WALL_TR,
             TILE_WALL_BL, TILE_WALL_BR}

(* Allowed sets of the generator *)
DRUNK_MAN_ALLOWED == {TILE_CAVE}
COST_CAVES_ALLOWED == {TILE_CAVE, TILE_GROUND}
NEED_CONNECT_ALLOWED == {TILE_GROUND}
CONNECT_CAVES_ALLOWED == {TILE_GROUND, TILE_CAVE}
COST_ROOMS_ALLOWED == {TILE_CORRIDOR, TILE_GROUND, TILE_WALL_H, TILE_WALL_V,
                       TILE_FLOOR, TILE_DOOR, TILE_WALL_TL, TILE_WALL_BL,
                       TILE_WALL_BR, TILE_WALL_TR}
CONNECT_ROOMS_ALLOWED == {TILE_GROUND, TILE_WALL_H, TILE_WALL_V, TILE_FLOOR,
                          TILE_CORRIDOR, TILE_DOOR}
CLEAN_UP_ALLOWED == {TILE_CORRIDOR}

(* Dungeon constants *)
TILE_NOT_VISITED == 0
TILE_VISITED == 1
MOVEMENT_ALLOWED == {TILE_DOOR, TILE_CORRIDOR, TILE_FLOOR, TILE_GROUND}

-----------------------------------------------------------------------------
(* utils.py: Point *)

\* math.isqrt
isqrt(n) == CHOOSE r \in 0..n : r * r <= n /\ (r + 1) * (r + 1) > n

\* Point.dst(x1, y1, x2, y2)
Point_dst(x1, y1, x2, y2) == isqrt((x1 - x2) * (x1 - x2) + (y1 - y2) * (y1 - y2))

\* Point.distance(self, x, y): the arguments reach dst in the order the
\* source passes them, (self._x, x, self._y, y)
Point_distance(self, x, y) == Point_dst(self[1], x, self[2], y)

-----------------------------------------------------------------------------
(* utils.py: Rect.  A rectangle is a record [x, y, width, height]. *)

Rect(x, y, w, h) == [x |-> x, y |-> y, width |-> w, height |-> h]

\* Rect.bounds: (left, top, right, bottom)
Rect_bounds(r) == <<r.x, r.y, r.x + r.width, r.y + r.height>>

\* Rect.intersects(self, another, min_distance)
Rect_intersects(self, another, min_distance) ==
    LET b1 == Rect_bounds(self)
        b2 == Rect_bounds(another)
    IN  /\ b1[1] - min_distance <= b2[3]
        /\ b2[1] <= b1[3] + min_distance
        /\ b1[2] - min_distance <= b2[4]
        /\ b2[2] <= b1[4] + min_distance

\* Rect.center
Rect_center(r) == <<r.x + r.width \div 2, r.y + r.height \div 2>>

\* Room.priority
Room_priority(r) == r.y * r.x

-----------------------------------------------------------------------------
(* utils.py: Grid.  A grid is a record [width, height, data] with           *)
(* data[y][x] the cell value, rows and columns numbered from 0.             *)

Grid(w, h, init_value) ==
    [width |-> w, height |-> h,
     data |-> [y \in 0..(h - 1) |-> [x \in 0..(w - 1) |-> init_value]]]

\* Grid.in_bounds
Grid_in_bounds(g, x, y) == 0 <= x /\ x < g.width /\ 0 <= y /\ y < g.height

\* The ValueError of Grid.get / Grid.put / Grid.neighbours, as a cell value
ValueError == -99

\* Grid.get: the value, or ValueError when out of bounds
Grid_get(g, x, y) == IF Grid_in_bounds(g, x, y) THEN g.data[y][x] ELSE ValueError

\* Grid.put (in bounds; the callers below never leave the grid)
Grid_put(g, x, y, val) == [g EXCEPT !.data[y][x] = val]

\* Grid.neighbours raising ValueError, as a result no call returns
NeighboursRaised == << <<ValueError, ValueError>> >>

\* a neighbours that collects the cells row by row, top to bottom
Grid_neighbours_row_major(g, x, y, allowed, diagonals) ==
    IF ~Grid_in_bounds(g, x, y) THEN NeighboursRaised
    ELSE LET offsets == IF diagonals
                        THEN << <<-1, -1>>, <<0, -1>>, <<1, -1>>, <<-1, 0>>,
                                <<1, 0>>, <<-1, 1>>, <<0, 1>>, <<1, 1>> >>
                        ELSE << <<0, -1>>, <<-1, 0>>, <<1, 0>>, <<0, 1>> >>
             Keep(d) == /\ Grid_in_bounds(g, x + d[1], y + d[2])
                        /\ g.data[y + d[2]][x + d[1]] \in allowed
             kept == SelectSeq(offsets, Keep)
         IN  [k \in 1..Len(kept) |-> <<x + kept[k][1], y + kept[k][2]>>]

\* Grid.neighbours: the raise of lines 123-124, or the sequence the source
\* builds, in its order
Grid_neighbours(g, x, y, allowed, diagonals) ==
    IF ~Grid_in_bounds(g, x, y) THEN NeighboursRaised
    ELSE
    LET up    == IF y - 1 > -1 /\ g.data[y - 1][x] \in allowed
                 THEN << <<x, y - 1>> >> ELSE << >>
        right == IF x + 1 < g.width /\ g.data[y][x + 1] \in allowed
                 THEN << <<x + 1, y>> >> ELSE << >>
        down  == IF y + 1 < g.height /\ g.data[y + 1][x] \in allowed
                 THEN << <<x, y + 1>> >> ELSE << >>
        left  == IF x - 1 > -1 /\ g.data[y][x - 1] \in allowed
                 THEN << <<x - 1, y>> >> ELSE << >>
        tl    == IF y - 1 > -1 /\ x - 1 > -1 /\ g.data[y - 1][x - 1] \in allowed
                 THEN << <<x - 1, y - 1>> >> ELSE << >>
        tr    == IF y - 1 > -1 /\ x + 1 < g.width /\ g.data[y - 1][x + 1] \in allowed
                 THEN << <<x + 1, y - 1>> >> ELSE << >>
        br    == IF y + 1 < g.height /\ x + 1 < g.width /\ g.data[y + 1][x + 1] \in allowed
                 THEN << <<x + 1, y + 1>> >> ELSE << >>
        bl    == IF y + 1 < g.height /\ x - 1 > -1 /\ g.data[y + 1][x - 1] \in allowed
                 THEN << <<x - 1, y + 1>> >> ELSE << >>
    IN  up \o right \o down \o left \o
        (IF diagonals THEN tl \o tr \o br \o bl ELSE << >>)

\* all cells of a grid
Cells(g) == (0..(g.width - 1)) \X (0..(g.height - 1))

-----------------------------------------------------------------------------
(* dungeon.py: PathFinder.PriorityQueue, a binary heap (heapq) of items     *)
(* [point, priority] compared by priority (Item.__lt__).                    *)

RECURSIVE SiftDownLoop(_, _, _, _)
SiftDownLoop(heap, startpos, pos, newitem) ==
    IF pos > startpos
    THEN LET parentpos == (pos - 1) \div 2
             parent == heap[parentpos + 1]
         IN  IF newitem.priority < parent.priority
             THEN SiftDownLoop([heap EXCEPT ![pos + 1] = parent], startpos, parentpos, newitem)
             ELSE [heap EXCEPT ![pos + 1] = newitem]
    ELSE [heap EXCEPT ![pos + 1] = newitem]

siftdown(heap, startpos, pos) == SiftDownLoop(heap, startpos, pos, heap[pos + 1])

RECURSIVE SiftUpLoop(_, _, _, _, _)
SiftUpLoop(heap, endpos, pos, childpos, newitem) ==
    IF childpos < endpos
    THEN LET rightpos == childpos + 1
             c == IF rightpos < endpos
                     /\ ~(heap[childpos + 1].priority < heap[rightpos + 1].priority)
                  THEN rightpos ELSE childpos
         IN  SiftUpLoop([heap EXCEPT ![pos + 1] = heap[c + 1]], endpos, c, 2 * c + 1, newitem)
    ELSE [heap |-> [heap EXCEPT ![pos + 1] = newitem], pos |-> pos]

siftup(heap, pos) ==
    LET r == SiftUpLoop(heap, Len(heap), pos, 2 * pos + 1, heap[pos + 1])
    IN  siftdown(r.heap, pos, r.pos)

\* PriorityQueue.put
PriorityQueue_put(items, point, priority) ==
    siftdown(Append(items, [point |-> point, priority |-> priority]), 0, Len(items))

\* PriorityQueue.get: the popped point and the remaining heap
PriorityQueue_get(items) ==
    LET lastelt == items[Len(items)]
        rest == SubSeq(items, 1, Len(items) - 1)
    IN  IF rest # << >>
        THEN [point |-> rest[1].point, items |-> siftup([rest EXCEPT ![1] = lastelt], 0)]
        ELSE [point |-> lastelt.point, items |-> rest]

-----------------------------------------------------------------------------
(* dungeon.py: the cost callables handed to PathFinder *)

\* weight += ..., over the weights of the neighbours in order
RECURSIVE SumWeights(_, _)
SumWeights(ws, i) ==
    IF i > Len(ws) THEN 0 ELSE ws[i] + SumWeights(ws, i + 1)

\* _Generator._cost_caves
cost_caves(g, to) ==
    LET W(p) == LET neighbour_type == Grid_get(g, p[1], p[2])
                IN  IF neighbour_type = TILE_CAVE THEN 1
                    ELSE IF neighbour_type = TILE_GROUND THEN 10
                    ELSE 0
        ns == Grid_neighbours(g, to[1], to[2], COST_CAVES_ALLOWED, TRUE)
    IN  SumWeights([k \in 1..Len(ns) |-> W(ns[k])], 1)

\* _Generator._cost_rooms
cost_rooms(g, to) ==
    LET W(p) == LET neighbour_type == Grid_get(g, p[1], p[2])
                IN  IF neighbour_type = TILE_GROUND THEN 5
                    ELSE IF neighbour_type = TILE_FLOOR THEN 1
                    ELSE IF neighbour_type = TILE_WALL_H \/ neighbour_type = TILE_WALL_V THEN 50
                    ELSE IF neighbour_type = TILE_WALL_TL \/ neighbour_type = TILE_WALL_BL THEN 70
                    ELSE IF neighbour_type = TILE_WALL_BR \/ neighbour_type = TILE_WALL_TR THEN 70
                    ELSE IF neighbour_type = TILE_CORRIDOR THEN 1
                    ELSE IF neighbour_type = TILE_DOOR THEN 1
                    ELSE IF neighbour_type = TILE_CAVE THEN 10
                    ELSE 0
        ns == Grid_neighbours(g, to[1], to[2], COST_ROOMS_ALLOWED, TRUE)
    IN  SumWeights([k \in 1..Len(ns) |-> W(ns[k])], 1)

\* PathFinder._cost_callable: "caves" is _cost_caves, "rooms" is _cost_rooms
cost_callable(kind, g, to) ==
    IF kind = "caves" THEN cost_caves(g, to) ELSE cost_rooms(g, to)

\* PathFinder.cost
PathFinder_cost(kind, g, point_to, point_goal) ==
    Point_dst(point_to[1], point_to[2], point_goal[1], point_goal[2])
        + cost_callable(kind, g, point_to)

-----------------------------------------------------------------------------
(* dungeon.py: PathFinder.find.  The locals of one call are a record        *)
(* [frontier, came_from, cost_so_far, current, status, path, iterations]:   *)
(* status is "running" inside the outer loop, "building" inside the loop    *)
(* that builds the path, "returned" after `return path` and "raised" after  *)
(* `raise PathNotFoundError`; iterations counts the frontier.get() calls    *)
(* (ghost).                                                                 *)

None == <<-1, -1>>

\* lines 49-54
find_init(start) ==
    [frontier |-> PriorityQueue_put(<< >>, start, 0),
     came_from |-> (start :> None),
     cost_so_far |-> (start :> 1),
     current |-> None,
     status |-> "running",
     path |-> << >>,
     iterations |-> 0]

\* lines 61-64: one iteration of `while current != start`, or the return
find_path(start, st) ==
    IF st.current # start
    THEN [st EXCEPT !.path = Append(st.path, st.current),
                    !.current = st.came_from[st.current]]
    ELSE [st EXCEPT !.status = "returned"]

\* line 67: the test that lets a neighbour into the frontier
find_improves(cost_so_far, next, new_cost) ==
    next \notin DOMAIN cost_so_far \/ new_cost < cost_so_far[next]

\* lines 65-70: the loop over the neighbours of current
RECURSIVE find_expand(_, _, _, _, _, _, _)
find_expand(g, kind, goal, current, ns, i, st) ==
    IF i > Len(ns) THEN st
    ELSE LET next == ns[i]
             new_cost == st.cost_so_far[current] + PathFinder_cost(kind, g, next, goal)
         IN  IF find_improves(st.cost_so_far, next, new_cost)
             THEN find_expand(g, kind, goal, current, ns, i + 1,
                     [st EXCEPT !.cost_so_far = (next :> new_cost) @@ st.cost_so_far,
                                !.frontier = PriorityQueue_put(st.frontier, next, new_cost),
                                !.came_from = (next :> current) @@ st.came_from])
             ELSE find_expand(g, kind, goal, current, ns, i + 1, st)

\* a find that gives up with an empty list where the source raises
find_exhausted_returns(st) == [st EXCEPT !.status = "returned"]

\* line 71: the frontier emptied before goal was reached
find_exhausted(st) == [st EXCEPT !.status = "raised"]

\* lines 55-71: one iteration of the outer loop (lines 59-60 on reaching the
\* goal), one iteration of the loop that builds the path, or the raise
find_step(g, kind, start, goal, allowed, st) ==
    IF st.status = "building"
    THEN find_path(start, st)
    ELSE IF st.frontier = << >>
    THEN find_exhausted(st)
    ELSE LET got == PriorityQueue_get(st.frontier)
             current == got.point
             popped == [st EXCEPT !.frontier = got.items,
                                  !.current = current,
                                  !.iterations = st.iterations + 1]
         IN  IF current = goal
             THEN [popped EXCEPT !.status = "building", !.path = <<start>>]
             ELSE find_expand(g, kind, goal, current,
                     Grid_neighbours(g, current[1], current[2], allowed, FALSE), 1, popped)

-----------------------------------------------------------------------------
(* SpecFind: PathFinder.find on every grid of FindWidth x FindHeight cells  *)
(* over the tiles FindTiles, for both cost callables with the allowed set   *)
(* the generator passes with each, and every start and goal.                *)

FindWidth == 3
FindHeight == 3
FindTiles == {TILE_CAVE, TILE_CORRIDOR}

\* the allowed set _connect_pair_caves / _connect_pair_rooms pass to find
allowed_of(kind) ==
    IF kind = "caves" THEN CONNECT_CAVES_ALLOWED ELSE CONNECT_ROOMS_ALLOWED

\* no call of _drunk_man in progress (see drunk_man below)
NoWalk == [x |-> 0, y |-> 0, start |-> None, nk |-> <<0, 0, 0>>, remaining |-> 0,
           returned |-> TRUE, hewn |-> {}]

\* no call of Grid.neighbours made
NoCall == [x |-> 0, y |-> 0, allowed |-> {}, diagonals |-> FALSE,
           status |-> "idle", result |-> << >>]

\* SceneProgress.__init__ (scene_progress.py lines 29-34) and RPG.__init__:
\* nothing generated yet, the generation thread started, the progress scene
\* shown; dungeon is SceneGame._dungeon, set when the game scene is built
SceneProgress == [finished |-> FALSE, data |-> "None", thread |-> "run",
                  rpg_scene |-> "SceneProgress", main |-> "update", dungeon |-> "unset"]

NoFind == [kind |-> "none", start |-> None, goal |-> None, allowed |-> {},
           st |-> [frontier |-> << >>, came_from |-> << >>, cost_so_far |-> << >>,
                   current |-> None, status |-> "idle", path |-> << >>, iterations |-> 0]]

FindInit ==
    /\ data \in {[width |-> FindWidth, height |-> FindHeight, data |-> d] :
                    d \in [0..(FindHeight - 1) -> [0..(FindWidth - 1) -> FindTiles]]}
    /\ pf \in {[kind |-> k, start |-> s, goal |-> g, allowed |-> allowed_of(k),
                st |-> find_init(s)] :
                    k \in {"caves", "rooms"},
                    s \in (0..(FindWidth - 1)) \X (0..(FindHeight - 1)),
                    g \in (0..(FindWidth - 1)) \X (0..(FindHeight - 1))}
    /\ rooms = << >>
    /\ cave_nooks = << >>
    /\ rng = 0
    /\ pc = "find"
    /\ cur = [i |-> 0, x |-> 0, y |-> 0, k |-> 0]
    /\ drunk = NoWalk
    /\ path = << >>
    /\ reported = << >>
    /\ failed = {}
    /\ fog_of_war = Grid(0, 0, TILE_NOT_VISITED)
    /\ hero = None
    /\ objects = << >>
    /\ monsters = << >>
    /\ calls = 0
    /\ nb = NoCall
    /\ scene = SceneProgress
    /\ attempted = {}

\* one iteration of the loop of find (or the raise that follows the loop)
FindStep ==
    /\ pf.st.status \in {"running", "building"}
    /\ pf' = [pf EXCEPT !.st = find_step(data, pf.kind, pf.start, pf.goal, pf.allowed, pf.st)]
    /\ UNCHANGED <<data, rooms, cave_nooks, rng, pc, cur, path, reported, failed,
                   fog_of_war, hero, objects, monsters, calls, drunk, nb, scene, attempted>>

FindNext == FindStep

SpecFind == FindInit /\ [][FindNext]_vars

\* The cells a walk of unit steps from start can stand on when every step
\* lands on a cell whose tile is in allowed.
RECURSIVE ReachableFrom(_, _, _)
ReachableFrom(g, allowed, seen) ==
    LET more == {q \in Cells(g) :
                    /\ q \notin seen
                    /\ g.data[q[2]][q[1]] \in allowed
                    /\ \E p \in seen : (p[1] - q[1]) * (p[1] - q[1])
                                        + (p[2] - q[2]) * (p[2] - q[2]) = 1}
    IN  IF more = {} THEN seen ELSE ReachableFrom(g, allowed, seen \cup more)

IsStep(p, q) == (p[1] - q[1]) * (p[1] - q[1]) + (p[2] - q[2]) * (p[2] - q[2]) = 1

\* C1 (as claimed): the list find returns runs from start to goal, each
\* element followed by the next step towards goal.
C1_PathOrderedStartToGoal ==
    pf.st.status = "returned" =>
        /\ pf.st.path[1] = pf.start
        /\ pf.st.path[Len(pf.st.path)] = pf.goal
        /\ \A i \in 1..(Len(pf.st.path) - 1) : IsStep(pf.st.path[i], pf.st.path[i + 1])

\* C2: find terminates (its loop runs at most once per cell of the grid),
\* and when goal cannot be reached from start through allowed cells it
\* ends by raising PathNotFoundError, never by returning a path.
C2_FindTerminatesAndRaises ==
    pf.st.status # "idle" =>
        /\ pf.st.iterations <= data.width * data.height
        /\ (pf.goal \notin ReachableFrom(data, pf.allowed, {pf.start})
               => pf.st.status \in {"running", "raised"})

\* witness of C2: a search that expanded cells and then raised
C2_Witness ==
    /\ pf.st.status = "raised"
    /\ pf.st.iterations >= 3
    /\ pf.goal \notin ReachableFrom(data, pf.allowed, {pf.start})

-----------------------------------------------------------------------------
(* dungeon.py: _Generator, room sampling *)

NUMBER_OF_ROOMS == 10
MIN_ROOM_SIZE == 8
MAX_ROOM_SIZE == 16
MIN_DISTANCE_BETWEEN_ROOMS == 8

\* _random_room, lines 218-227, given its three draws: size from
\* randrange(MIN_ROOM_SIZE, MAX_ROOM_SIZE), x and y from randrange(0, ...)
room_width(size) == IF size % 4 # 0 THEN (size \div 3) * 4 ELSE size
room_height(size) == IF size % 4 # 0 THEN size ELSE (size \div 3) * 4
random_room(size, x, y) == Rect(x, y, room_width(size), room_height(size))

\* a sampler that tests the new room against the last accepted room only
generate_room_accepts_last_only(accepted, new_room, min_distance) ==
    IF accepted = << >> THEN TRUE
    ELSE ~Rect_intersects(accepted[Len(accepted)], new_room, min_distance)

\* _generate_room, lines 232-236: the for/else that accepts new_room
generate_room_accepts(accepted, new_room, min_distance) ==
    \A i \in 1..Len(accepted) : ~Rect_intersects(accepted[i], new_room, min_distance)

\* list.sort(key=priority): stable, ascending
RECURSIVE sort_insert(_, _)
sort_insert(sorted, r) ==
    IF sorted = << >> THEN <<r>>
    ELSE IF Room_priority(sorted[Len(sorted)]) <= Room_priority(r)
         THEN Append(sorted, r)
         ELSE Append(sort_insert(SubSeq(sorted, 1, Len(sorted) - 1), r), sorted[Len(sorted)])

RECURSIVE sort_rooms(_, _, _)
sort_rooms(rs, i, acc) ==
    IF i > Len(rs) THEN acc ELSE sort_rooms(rs, i + 1, sort_insert(acc, rs[i]))

-----------------------------------------------------------------------------
(* The random module.  In Spec every draw comes from one generator seeded   *)
(* once per dungeon: a linear congruential generator, so that a behaviour   *)
(* is one outcome of the draws of the source.                               *)

RngMultiplier == 75
RngIncrement == 74
RngModulus == 65537

rng_next(s) == (RngMultiplier * s + RngIncrement) % RngModulus

\* random.randrange(lo, hi): the value drawn and the generator afterwards
randrange(s, lo, hi) == [value |-> lo + (rng_next(s) % (hi - lo)), rng |-> rng_next(s)]

-----------------------------------------------------------------------------
(* dungeon.py: _Generator._drunk_man *)

\* lines 245-252: the step chosen by select, skipped at the edge of the grid
drunk_move(g, select, x, y) ==
    IF select = 0 /\ y > 0 THEN <<x, y - 1>>
    ELSE IF select = 1 /\ x < g.width - 1 THEN <<x + 1, y>>
    ELSE IF select = 2 /\ y < g.height - 1 THEN <<x, y + 1>>
    ELSE IF select = 3 /\ x > 0 THEN <<x - 1, y>>
    ELSE <<x, y>>

\* lines 253-259: hew the cave neighbours of the walker, track the farthest
RECURSIVE drunk_hew(_, _, _, _, _, _)
drunk_hew(g, nk, ns, i, start_x, start_y) ==
    IF i > Len(ns) THEN [grid |-> g, nk |-> nk]
    ELSE LET x == ns[i][1]
             y == ns[i][2]
             d == Point_dst(x, y, start_x, start_y)
         IN  drunk_hew(Grid_put(g, x, y, TILE_GROUND),
                       IF d > nk[3] THEN <<x, y, d>> ELSE nk,
                       ns, i + 1, start_x, start_y)

\* The locals of one call of _drunk_man are a record: the walker (x, y),
\* the start, the farthest hewn cell nk = (nk_x, nk_y, nk_d), the iterations
\* left of range(0, depth), returned, set once the caller has the result,
\* and hewn, the cells the walk has put Ground on so far (ghost).

\* lines 239-242: the call, up to the loop
drunk_man(g, start_x, start_y, depth) ==
    IF ~Grid_in_bounds(g, start_x, start_y)
    THEN [x |-> start_x, y |-> start_y, start |-> <<start_x, start_y>>,
          nk |-> <<-1, -1, -1>>, remaining |-> 0, returned |-> FALSE, hewn |-> {}]
    ELSE [x |-> start_x, y |-> start_y, start |-> <<start_x, start_y>>,
          nk |-> <<0, 0, 0>>, remaining |-> depth, returned |-> FALSE, hewn |-> {}]

\* lines 243-259: one iteration of the loop over range(0, depth)
drunk_loop(g, s, w) ==
    LET select == randrange(s, 0, 4)
        pos == drunk_move(g, select.value, w.x, w.y)
        ns == Grid_neighbours(g, pos[1], pos[2], DRUNK_MAN_ALLOWED, FALSE)
        hewn == drunk_hew(g, w.nk, ns, 1, w.start[1], w.start[2])
    IN  [grid |-> hewn.grid, rng |-> select.rng,
         walk |-> [w EXCEPT !.x = pos[1], !.y = pos[2], !.nk = hewn.nk,
                            !.remaining = w.remaining - 1,
                            !.hewn = w.hewn \cup {ns[k] : k \in 1..Len(ns)}]]

-----------------------------------------------------------------------------
(* dungeon.py: the passes of _Generator over the grid *)

\* _connect_pair_caves, lines 278-280, for one point of the path: every
\* cave tile among its neighbours becomes corridor
caves_corridor(g, ptr) ==
    LET ns == Grid_neighbours(g, ptr[1], ptr[2], CONNECT_CAVES_ALLOWED, TRUE)
        around == {ns[i] : i \in 1..Len(ns)}
    IN  [g EXCEPT !.data = [y \in 0..(g.height - 1) |-> [x \in 0..(g.width - 1) |->
            IF <<x, y>> \in around /\ g.data[y][x] = TILE_CAVE
            THEN TILE_CORRIDOR ELSE g.data[y][x]]]]

\* a room pass that leaves the cells of the path as they are
rooms_corridor_keeps_walls(g, ptr) == g

\* _connect_pair_rooms, lines 331-335, for one point of the path: a wall
\* becomes a door, ground becomes corridor
rooms_corridor(g, ptr) ==
    LET cell_type == Grid_get(g, ptr[1], ptr[2])
    IN  IF cell_type = TILE_WALL_H \/ cell_type = TILE_WALL_V
        THEN Grid_put(g, ptr[1], ptr[2], TILE_DOOR)
        ELSE IF cell_type = TILE_GROUND
             THEN Grid_put(g, ptr[1], ptr[2], TILE_CORRIDOR)
             ELSE g

\* a stamping that leaves the cells of the room's edge as they are
copy_room_data_interior_only(g, room) ==
    LET b == Rect_bounds(room)
    IN  [g EXCEPT !.data = [y \in 0..(g.height - 1) |-> [x \in 0..(g.width - 1) |->
            IF b[1] < x /\ x < b[3] /\ b[2] < y /\ y < b[4]
            THEN TILE_FLOOR ELSE g.data[y][x]]]]

\* _copy_room_data: each cell of the rectangle, bounds included, is written
\* once with the tile its position selects
copy_room_data(g, room) ==
    LET b == Rect_bounds(room)
        x1 == b[1]
        y1 == b[2]
        x2 == b[3]
        y2 == b[4]
        tile(x, y) == IF x = x1 /\ y = y1 THEN TILE_WALL_TL
                      ELSE IF x = x1 /\ y = y2 THEN TILE_WALL_BL
                      ELSE IF x = x2 /\ y = y1 THEN TILE_WALL_TR
                      ELSE IF x = x2 /\ y = y2 THEN TILE_WALL_BR
                      ELSE IF y = y1 \/ y = y2 THEN TILE_WALL_H
                      ELSE IF x = x1 \/ x = x2 THEN TILE_WALL_V
                      ELSE TILE_FLOOR
    IN  [g EXCEPT !.data = [y \in 0..(g.height - 1) |-> [x \in 0..(g.width - 1) |->
            IF x1 <= x /\ x <= x2 /\ y1 <= y /\ y <= y2
            THEN tile(x, y) ELSE g.data[y][x]]]]

\* _clean_up: for every cave cell off the border, its corridor neighbours
\* (diagonals included) become ground.  The pass rewrites corridor cells
\* only and tests cave cells only, so the order of its scan does not show
\* in the result.
clean_up(g) ==
    [g EXCEPT !.data = [y \in 0..(g.height - 1) |-> [x \in 0..(g.width - 1) |->
        IF /\ g.data[y][x] \in CLEAN_UP_ALLOWED
           /\ \E cx \in 1..(g.width - 2), cy \in 1..(g.height - 2) :
                /\ g.data[cy][cx] = TILE_CAVE
                /\ <<x, y>> \in {<<cx, cy - 1>>, <<cx + 1, cy>>, <<cx, cy + 1>>,
                                 <<cx - 1, cy>>, <<cx - 1, cy - 1>>, <<cx + 1, cy - 1>>,
                                 <<cx + 1, cy + 1>>, <<cx - 1, cy + 1>>}
        THEN TILE_GROUND ELSE g.data[y][x]]]]

-----------------------------------------------------------------------------
(* dungeon.py: Dungeon *)

VisibleDist == 7

\* a result of is_movement_possible: the boolean returned, or raised when
\* Grid.get raises ValueError
Returned(b) == [raised |-> FALSE, value |-> b]
Raised == [raised |-> TRUE, value |-> FALSE]

\* an is_movement_possible that reads the destination without the bounds test
is_movement_possible_unchecked(g, x, y, dx, dy) ==
    IF dx = 0 /\ dy = 0 THEN Returned(FALSE)
    ELSE LET cell_type == Grid_get(g, x + dx, y + dy)
         IN  IF cell_type = ValueError THEN Raised
             ELSE Returned(cell_type \in MOVEMENT_ALLOWED)

\* an is_movement_possible that accepts every destination inside the grid
is_movement_possible_any_tile(g, x, y, dx, dy) ==
    IF dx = 0 /\ dy = 0 THEN Returned(FALSE)
    ELSE Returned(Grid_in_bounds(g, x + dx, y + dy))

\* Dungeon.is_movement_possible
is_movement_possible(g, x, y, dx, dy) ==
    IF dx = 0 /\ dy = 0 THEN Returned(FALSE)
    ELSE LET new_x == x + dx
             new_y == y + dy
         IN  IF ~Grid_in_bounds(g, new_x, new_y) THEN Returned(FALSE)
             ELSE LET cell_type == Grid_get(g, new_x, new_y)
                  IN  IF cell_type = ValueError THEN Raised
                      ELSE Returned(cell_type \in MOVEMENT_ALLOWED)

Max(a, b) == IF a >= b THEN a ELSE b
Min(a, b) == IF a <= b THEN a ELSE b

\* an update_visible that recomputes the fog from nothing
update_visible_forgets(fog, position) ==
    LET dist == VisibleDist
        start_x == Max(0, position[1] - dist)
        start_y == Max(0, position[2] - dist)
        end_x == Min(fog.width, position[1] + dist)
        end_y == Min(fog.height, position[2] + dist)
    IN  [fog EXCEPT !.data = [y \in 0..(fog.height - 1) |-> [x \in 0..(fog.width - 1) |->
            IF /\ start_x <= x /\ x < end_x /\ start_y <= y /\ y < end_y
               /\ Point_distance(position, x, y) <= dist
            THEN TILE_VISITED ELSE TILE_NOT_VISITED]]]

\* Dungeon.update_visible: the cells of range(start_x, end_x) x
\* range(start_y, end_y) whose distance passes the test are put to VISITED
update_visible(fog, position) ==
    LET dist == VisibleDist
        start_x == Max(0, position[1] - dist)
        start_y == Max(0, position[2] - dist)
        end_x == Min(fog.width, position[1] + dist)
        end_y == Min(fog.height, position[2] + dist)
    IN  [fog EXCEPT !.data = [y \in 0..(fog.height - 1) |-> [x \in 0..(fog.width - 1) |->
            IF /\ start_x <= x /\ x < end_x /\ start_y <= y /\ y < end_y
               /\ Point_distance(position, x, y) <= dist
            THEN TILE_VISITED ELSE fog.data[y][x]]]]

\* _place_objects, lines 436-449 and 460-467: the tables the draws pick from
\* (-1 places a monster, -2 nothing); OBJ_ and MON_ ids as in class Tiles
random_objects ==
    [i \in 1..21 |-> -1] \o [i \in 1..63 |-> -2] \o <<4, 5, 5, 6, 6>>
random_monsters ==
    [i \in 1..14 |-> 0] \o <<1, 2, 4, 5, 7, 8, 10, 11, 12>>
room_monsters == <<3, 6, 9, 11, 12, 2>>
room_objects == <<0, 1, 2, 3, 7, 5, 6, 6>>

\* random.shuffle followed by random.choice: one element of the table
choice(s, table) ==
    LET r == randrange(s, 0, Len(table)) IN [value |-> table[r.value + 1], rng |-> r.rng]

\* lines 452-459, for one nook: st is [rng, objects, monsters]
place_on_nook(st, nook_point) ==
    LET obj == choice(st.rng, random_objects)
    IN  IF obj.value < 0
        THEN IF obj.value = -1
             THEN LET mon == choice(obj.rng, random_monsters)
                  IN  [st EXCEPT !.rng = mon.rng,
                                 !.monsters = Append(st.monsters,
                                    [x |-> nook_point[1], y |-> nook_point[2],
                                     type |-> mon.value])]
             ELSE [st EXCEPT !.rng = obj.rng]
        ELSE [st EXCEPT !.rng = obj.rng,
                        !.objects = Append(st.objects,
                            [x |-> nook_point[1], y |-> nook_point[2], type |-> obj.value])]

\* lines 472-482: one coin flip and one placement inside a room
place_in_room(s, room, table) ==
    LET b == Rect_bounds(room)
        flip == randrange(s, 0, 2)
    IN  IF flip.value = 0
        THEN LET id == choice(flip.rng, table)
                 rand_x == randrange(id.rng, b[1] + 1, b[3] - 1)
                 rand_y == randrange(rand_x.rng, b[2] + 1, b[4] - 1)
             IN  [rng |-> rand_y.rng,
                  placed |-> <<[x |-> rand_x.value, y |-> rand_y.value, type |-> id.value]>>]
        ELSE [rng |-> flip.rng, placed |-> << >>]

\* lines 470-482, for one room: the loot, then the monster
place_in_rooms(st, room) ==
    LET loot == place_in_room(st.rng, room, room_objects)
        mon == place_in_room(loot.rng, room, room_monsters)
    IN  [rng |-> mon.rng,
         objects |-> st.objects \o loot.placed,
         monsters |-> st.monsters \o mon.placed]

-----------------------------------------------------------------------------
(* scene_progress.py: SceneProgress, and rogue.py: RPG.update.  The scene   *)
(* record holds SceneProgress._finished and _data ("None" or "Dungeon", the *)
(* object Dungeon(...) returned), the position of the generation thread in  *)
(* _create_next_scene (thread), RPG._scene (rpg_scene), the position of the *)
(* main thread in RPG.update (main) and SceneGame._dungeon (dungeon).       *)

\* a _create_next_scene that raises the flag before it stores the dungeon
create_next_scene_flag_first(sc, map_data) ==
    [sc EXCEPT !.finished = TRUE, !.thread = "flag"]

\* _create_next_scene, line 37
create_next_scene_data(sc, map_data) ==
    [sc EXCEPT !.data = map_data, !.thread = "flag"]

\* _create_next_scene, line 38
create_next_scene_finished(sc) ==
    [sc EXCEPT !.finished = TRUE, !.thread = "done"]

\* SceneProgress.is_finished
is_finished(sc) == sc.finished

\* SceneProgress.next_scene and SceneGame.__init__ (scene_game.py lines
\* 12-13), then rogue.py lines 14-15: with _data still None,
\* dungeon.hero_position() raises AttributeError
next_scene(sc) ==
    IF sc.data = "None"
    THEN [sc EXCEPT !.main = "raised"]
    ELSE [sc EXCEPT !.dungeon = sc.data, !.rpg_scene = "SceneGame", !.main = "update"]

-----------------------------------------------------------------------------
(* SpecSample: the sampling loop of _Generator.run (lines 374-375) on a     *)
(* grid of SampleSide x SampleSide cells, with the constants of the source  *)
(* and every outcome of the three draws of _random_room.  A draw that       *)
(* _generate_room rejects changes nothing and is a stuttering step.         *)

SampleSide == 26

Idle ==
    /\ pf = NoFind
    /\ cave_nooks = << >>
    /\ cur = [i |-> 0, x |-> 0, y |-> 0, k |-> 0]
    /\ drunk = NoWalk
    /\ path = << >>
    /\ reported = << >>
    /\ failed = {}
    /\ fog_of_war = Grid(0, 0, TILE_NOT_VISITED)
    /\ hero = None
    /\ objects = << >>
    /\ monsters = << >>
    /\ calls = 0
    /\ nb = NoCall
    /\ scene = SceneProgress
    /\ attempted = {}

SampleInit ==
    /\ data = Grid(SampleSide, SampleSide, TILE_CAVE)
    /\ rooms = << >>
    /\ rng = 0
    /\ pc = "sampling"
    /\ Idle

SampleRoom ==
    /\ pc = "sampling"
    /\ Len(rooms) < NUMBER_OF_ROOMS
    /\ \E size \in MIN_ROOM_SIZE..(MAX_ROOM_SIZE - 1) :
         \E x \in 0..(data.width - room_width(size) - 1) :
           \E y \in 0..(data.height - room_height(size) - 1) :
             LET new_room == random_room(size, x, y)
             IN  /\ generate_room_accepts(rooms, new_room, MIN_DISTANCE_BETWEEN_ROOMS)
                 /\ rooms' = Append(rooms, new_room)
    /\ UNCHANGED <<pf, data, cave_nooks, rng, pc, cur, path, reported, failed,
                   fog_of_war, hero, objects, monsters, calls, drunk, nb, scene, attempted>>

SampleNext == SampleRoom

SpecSample == SampleInit /\ [][SampleNext]_vars

\* two closed rectangles of cells share a cell
RectsOverlap(l1, t1, r1, b1, l2, t2, r2, b2) ==
    Max(l1, l2) <= Min(r1, r2) /\ Max(t1, t2) <= Min(b1, b2)

\* room a grown by m cells on its four sides shares a cell with room b
GrownOverlaps(a, b, m) ==
    RectsOverlap(a.x - m, a.y - m, a.x + a.width + m, a.y + a.height + m,
                 b.x, b.y, b.x + b.width, b.y + b.height)

\* C5: no two distinct accepted rooms intersect when one of them is grown by
\* MIN_DISTANCE_BETWEEN_ROOMS on all four sides, whichever of the two is
\* grown and in whatever order they were accepted.
C5_RoomsKeepTheirDistance ==
    pc = "sampling" =>
        \A i, j \in 1..Len(rooms) :
            i # j => ~GrownOverlaps(rooms[i], rooms[j], MIN_DISTANCE_BETWEEN_ROOMS)

\* witness of C5: three rooms accepted, the third tested against two others
C5_Witness == pc = "sampling" /\ Len(rooms) >= 3

-----------------------------------------------------------------------------
(* SpecNeighbours: one call of Grid.neighbours on every grid of FindWidth x *)
(* FindHeight cells over the tiles FindTiles, from every cell of the grid   *)
(* and every cell of the ring around it, for every allowed set over those   *)
(* tiles, with and without diagonals.                                       *)

NeighboursInit ==
    /\ data \in {[width |-> FindWidth, height |-> FindHeight, data |-> d] :
                    d \in [0..(FindHeight - 1) -> [0..(FindWidth - 1) -> FindTiles]]}
    /\ rooms = << >>
    /\ rng = 0
    /\ pc = "neighbours"
    /\ Idle

Neighbours ==
    /\ pc = "neighbours"
    /\ nb.status = "idle"
    /\ \E x \in -1..data.width, y \in -1..data.height,
          allowed \in SUBSET FindTiles, diagonals \in BOOLEAN :
          LET result == Grid_neighbours(data, x, y, allowed, diagonals)
          IN  nb' = [x |-> x, y |-> y, allowed |-> allowed, diagonals |-> diagonals,
                     status |-> IF result = NeighboursRaised THEN "raised" ELSE "returned",
                     result |-> result]
    /\ UNCHANGED <<pf, data, rooms, cave_nooks, rng, pc, cur, drunk, path, reported, failed,
                   fog_of_war, hero, objects, monsters, calls, scene, attempted>>

NeighboursNext == Neighbours

SpecNeighbours == NeighboursInit /\ [][NeighboursNext]_vars

\* the neighbours of (x, y) in the order up, right, down, left, top-left,
\* top-right, bottom-right, bottom-left
Around(x, y) ==
    << <<x, y - 1>>, <<x + 1, y>>, <<x, y + 1>>, <<x - 1, y>>,
       <<x - 1, y - 1>>, <<x + 1, y - 1>>, <<x + 1, y + 1>>, <<x - 1, y + 1>> >>

\* C11: for an in-bounds (x, y) neighbours returns exactly the in-bounds
\* adjacent cells whose value is in allowed, each once, in the order up,
\* right, down, left and then, only with diagonals, top-left, top-right,
\* bottom-right, bottom-left; for an out-of-bounds (x, y) it raises the
\* out-of-bounds error instead of returning.
C11_NeighboursInOrder ==
    nb.status # "idle" =>
        IF Grid_in_bounds(data, nb.x, nb.y)
        THEN LET Wanted(p) == /\ Grid_in_bounds(data, p[1], p[2])
                              /\ data.data[p[2]][p[1]] \in nb.allowed
                 candidates == SubSeq(Around(nb.x, nb.y), 1, IF nb.diagonals THEN 8 ELSE 4)
             IN  /\ nb.status = "returned"
                 /\ nb.result = SelectSeq(candidates, Wanted)
        ELSE nb.status = "raised"

\* witness of C11: a call with diagonals from the middle of the grid that
\* returned some of the eight cells around it, a diagonal one among them
C11_Witness ==
    /\ nb.status = "returned"
    /\ nb.diagonals
    /\ nb.x = 1 /\ nb.y = 1
    /\ Len(nb.result) = 5
    /\ nb.result[5] = <<0, 2>>

-----------------------------------------------------------------------------
(* Spec: Dungeon(GenWidth, GenHeight, progress) and the game that follows.  *)
(* The grid is far smaller than the 256 x 256 of the game, so the lengths   *)
(* of the generator are scaled with it (Scaled, below, in place of the      *)
(* constants at dungeon.py lines 160-163); the depths of the erosion walks  *)
(* are those of the source.  The draws come from the generator seeded with  *)
(* a member of Seeds: seeds whose room sampling completes on this grid.     *)
(* A second, wider grid (WideWidth x WideHeight) takes five rooms, closer   *)
(* to each other, with the seeds of WideSeeds.                              *)

GenWidth == 18
GenHeight == 18
WideWidth == 20
WideHeight == 20
Scaled == IF data.width < WideWidth
          THEN [NUMBER_OF_ROOMS |-> 4, MIN_ROOM_SIZE |-> 3, MAX_ROOM_SIZE |-> 4,
                MIN_DISTANCE_BETWEEN_ROOMS |-> 6]
          ELSE [NUMBER_OF_ROOMS |-> 5, MIN_ROOM_SIZE |-> 3, MAX_ROOM_SIZE |-> 4,
                MIN_DISTANCE_BETWEEN_ROOMS |-> 4]
Seeds == {89, 103, 7732}
WideSeeds == {3167, 32964}
MaxCalls == 3

\* the sink SceneProgress hands to Dungeon (scene_progress.py line 33)
progress_callback_supplied == TRUE

\* a sink that is called twice for each milestone
progress_repeats(rep, value) == Append(Append(rep, value), value)

\* _Generator._progress
progress(rep, value) == IF progress_callback_supplied THEN Append(rep, value) ELSE rep

Init ==
    /\ \/ data = Grid(GenWidth, GenHeight, TILE_CAVE) /\ rng \in Seeds
       \/ data = Grid(WideWidth, WideHeight, TILE_CAVE) /\ rng \in WideSeeds
    /\ rooms = << >>
    /\ pc = "sampling"
    /\ Idle

\* _generate_room, lines 230-236, with the constants c: one pass of
\* `while True`, its three draws taken from the generator in state s
generate_room(c, g, accepted, s) ==
    LET size == randrange(s, c.MIN_ROOM_SIZE, c.MAX_ROOM_SIZE)
        x == randrange(size.rng, 0, g.width - room_width(size.value))
        y == randrange(x.rng, 0, g.height - room_height(size.value))
        new_room == random_room(size.value, x.value, y.value)
    IN  [rng |-> y.rng,
         rooms |-> IF generate_room_accepts(accepted, new_room, c.MIN_DISTANCE_BETWEEN_ROOMS)
                   THEN Append(accepted, new_room) ELSE accepted]

\* run, lines 374-375, and _generate_room: one pass of `while True`
GenerateRoom ==
    /\ pc = "sampling"
    /\ Len(rooms) < Scaled.NUMBER_OF_ROOMS
    /\ LET pass == generate_room(Scaled, data, rooms, rng)
       IN  /\ rng' = pass.rng
           /\ rooms' = pass.rooms
    /\ UNCHANGED <<pf, data, cave_nooks, pc, cur, path, reported, failed,
                   fog_of_war, hero, objects, monsters, calls, drunk, nb, scene, attempted>>

\* the first cell of the walk over room i, or the end of the stage
first_cell(rs, i) ==
    IF i > Len(rs) THEN [i |-> i, x |-> 0, y |-> 0, k |-> 0]
    ELSE [i |-> i, x |-> rs[i].x, y |-> rs[i].y, k |-> 0]

\* run, lines 376-377: the rooms are sampled
RoomsSampled ==
    /\ pc = "sampling"
    /\ Len(rooms) = Scaled.NUMBER_OF_ROOMS
    /\ reported' = progress(reported, 10)
    /\ rooms' = sort_rooms(rooms, 1, << >>)
    /\ cur' = first_cell(rooms', 1)
    /\ pc' = "caves"
    /\ UNCHANGED <<pf, data, cave_nooks, rng, path, failed,
                   fog_of_war, hero, objects, monsters, calls, drunk, nb, scene, attempted>>

\* _generate_caves, line 301: the depth is drawn and _drunk_man is called
\* for one cell of a room
GenerateCaves ==
    /\ pc = "caves"
    /\ cur.i <= Len(rooms)
    /\ drunk.returned
    /\ LET depth == randrange(rng, 4, 7)
       IN  /\ rng' = depth.rng
           /\ drunk' = drunk_man(data, cur.x, cur.y, depth.value)
    /\ UNCHANGED <<pf, data, rooms, cave_nooks, pc, cur, path, reported, failed,
                   fog_of_war, hero, objects, monsters, calls, nb, scene, attempted>>

\* _drunk_man, lines 243-259: one step of the walk
DrunkMan ==
    /\ pc \in {"caves", "widen"}
    /\ ~drunk.returned
    /\ drunk.remaining > 0
    /\ LET step == drunk_loop(data, rng, drunk)
       IN  /\ data' = step.grid
           /\ rng' = step.rng
           /\ drunk' = step.walk
    /\ UNCHANGED <<pf, rooms, cave_nooks, pc, cur, path, reported, failed,
                   fog_of_war, hero, objects, monsters, calls, nb, scene, attempted>>

\* _generate_caves, lines 301-303: _drunk_man returned, the farthest cell
\* is recorded as a nook when it passes the test
NookCaves ==
    /\ pc = "caves"
    /\ ~drunk.returned
    /\ drunk.remaining = 0
    /\ LET b == Rect_bounds(rooms[cur.i])
           left == b[1]
           top == b[2]
           right == b[3]
           bottom == b[4]
           c == Rect_center(rooms[cur.i])
           distance == Min(IF c[1] - left >= 0 THEN c[1] - left ELSE left - c[1],
                           IF c[2] - top >= 0 THEN c[2] - top ELSE top - c[2]) + 1
           x == drunk.nk[1]
           y == drunk.nk[2]
           d == Point_dst(x, y, c[1], c[2])
       IN  /\ cave_nooks' = IF d > distance /\ drunk.nk[3] > 0 /\ x # left /\ x # right
                               /\ y # top /\ y # bottom
                            THEN Append(cave_nooks, <<x, y>>) ELSE cave_nooks
           /\ cur' = IF cur.y < bottom THEN [cur EXCEPT !.y = cur.y + 1]
                     ELSE IF cur.x < right THEN [cur EXCEPT !.x = cur.x + 1, !.y = top]
                     ELSE first_cell(rooms, cur.i + 1)
    /\ drunk' = NoWalk
    /\ UNCHANGED <<pf, data, rooms, rng, pc, path, reported, failed,
                   fog_of_war, hero, objects, monsters, calls, nb, scene, attempted>>

\* run, lines 379-380: the caves are sculpted
CavesGenerated ==
    /\ pc = "caves"
    /\ cur.i > Len(rooms)
    /\ drunk.returned
    /\ reported' = progress(reported, 30)
    /\ cur' = [i |-> 1, x |-> 0, y |-> 0, k |-> 0]
    /\ pc' = "connect_caves"
    /\ UNCHANGED <<pf, data, rooms, cave_nooks, rng, path, failed,
                   fog_of_war, hero, objects, monsters, calls, drunk, nb, scene, attempted>>

\* the call of find for the pair (rooms[i], rooms[i + 1])
start_find(kind, i) ==
    [kind |-> kind, start |-> Rect_center(rooms[i]), goal |-> Rect_center(rooms[i + 1]),
     allowed |-> allowed_of(kind), st |-> find_init(Rect_center(rooms[i]))]

\* _connect_pair_caves lines 286-287, _connect_pair_rooms lines 336-337:
\* `except PathNotFound: pass`, so that the loop of _connect_all_caves or
\* _connect_all_rooms goes on to the next pair
except_PathNotFound_propagates(c) == [c EXCEPT !.i = Len(rooms)]

except_PathNotFound(c) == [c EXCEPT !.i = c.i + 1]

\* _connect_pair_caves, lines 274-276: find is called
FindCaves ==
    /\ pc = "connect_caves"
    /\ cur.i < Len(rooms)
    /\ pf' = start_find("caves", cur.i)
    /\ pc' = "find_caves"
    /\ attempted' = attempted \cup {<<"caves", cur.i>>}
    /\ UNCHANGED <<data, rooms, cave_nooks, rng, cur, path, reported, failed,
                   fog_of_war, hero, objects, monsters, calls, drunk, nb, scene>>

\* _connect_pair_caves, line 276: find returned a path
PathFoundCaves ==
    /\ pc = "find_caves"
    /\ pf.st.status = "returned"
    /\ path' = pf.st.path
    /\ cur' = [cur EXCEPT !.k = 1]
    /\ pc' = "corridor"
    /\ pf' = NoFind
    /\ UNCHANGED <<data, rooms, cave_nooks, rng, reported, failed,
                   fog_of_war, hero, objects, monsters, calls, drunk, nb, scene, attempted>>

\* _connect_pair_caves, lines 277-280: the cave tiles around one point of
\* the path become corridor
ConnectPairCaves ==
    /\ pc = "corridor"
    /\ cur.k <= Len(path)
    /\ data' = caves_corridor(data, path[cur.k])
    /\ cur' = [cur EXCEPT !.k = cur.k + 1]
    /\ UNCHANGED <<pf, rooms, cave_nooks, rng, pc, path, reported, failed,
                   fog_of_war, hero, objects, monsters, calls, drunk, nb, scene, attempted>>

\* _connect_pair_caves, line 281: the second loop over the path starts
PathCorridored ==
    /\ pc = "corridor"
    /\ cur.k > Len(path)
    /\ cur' = [cur EXCEPT !.k = 1]
    /\ pc' = "widen"
    /\ UNCHANGED <<pf, data, rooms, cave_nooks, rng, path, reported, failed,
                   fog_of_war, hero, objects, monsters, calls, drunk, nb, scene, attempted>>

\* _connect_pair_caves, lines 286-287: find raised, the pair is skipped
SkipPairCaves ==
    /\ pc = "find_caves"
    /\ pf.st.status = "raised"
    /\ failed' = failed \cup {<<"caves", cur.i>>}
    /\ cur' = except_PathNotFound(cur)
    /\ pc' = "connect_caves"
    /\ pf' = NoFind
    /\ UNCHANGED <<data, rooms, cave_nooks, rng, path, reported,
                   fog_of_war, hero, objects, monsters, calls, drunk, nb, scene, attempted>>

\* _connect_pair_caves, line 282: the depth is drawn and _drunk_man is
\* called for one point of the path
WidenPath ==
    /\ pc = "widen"
    /\ cur.k <= Len(path)
    /\ drunk.returned
    /\ LET ptr == path[cur.k]
           depth == randrange(rng, 2, 5)
       IN  /\ rng' = depth.rng
           /\ drunk' = drunk_man(data, ptr[1], ptr[2], depth.value)
    /\ UNCHANGED <<pf, data, rooms, cave_nooks, pc, cur, path, reported, failed,
                   fog_of_war, hero, objects, monsters, calls, nb, scene, attempted>>

\* _connect_pair_caves, lines 282-284: _drunk_man returned
NookPath ==
    /\ pc = "widen"
    /\ ~drunk.returned
    /\ drunk.remaining = 0
    /\ cave_nooks' = IF drunk.nk[3] >= 2
                     THEN Append(cave_nooks, <<drunk.nk[1], drunk.nk[2]>>)
                     ELSE cave_nooks
    /\ cur' = [cur EXCEPT !.k = cur.k + 1]
    /\ drunk' = NoWalk
    /\ UNCHANGED <<pf, data, rooms, rng, pc, path, reported, failed,
                   fog_of_war, hero, objects, monsters, calls, nb, scene, attempted>>

\* _connect_all_caves: on to the next pair
PathWidened ==
    /\ pc = "widen"
    /\ cur.k > Len(path)
    /\ drunk.returned
    /\ cur' = [cur EXCEPT !.i = cur.i + 1, !.k = 0]
    /\ path' = << >>
    /\ pc' = "connect_caves"
    /\ UNCHANGED <<pf, data, rooms, cave_nooks, rng, reported, failed,
                   fog_of_war, hero, objects, monsters, calls, drunk, nb, scene, attempted>>

\* run, line 381: the caves are connected
CavesConnected ==
    /\ pc = "connect_caves"
    /\ cur.i >= Len(rooms)
    /\ reported' = progress(reported, 50)
    /\ cur' = [i |-> 1, x |-> 0, y |-> 0, k |-> 0]
    /\ pc' = "stamp"
    /\ UNCHANGED <<pf, data, rooms, cave_nooks, rng, path, failed,
                   fog_of_war, hero, objects, monsters, calls, drunk, nb, scene, attempted>>

\* run, lines 382-383: one room is stamped
CopyRoomData ==
    /\ pc = "stamp"
    /\ cur.i <= Len(rooms)
    /\ data' = copy_room_data(data, rooms[cur.i])
    /\ cur' = [cur EXCEPT !.i = cur.i + 1]
    /\ UNCHANGED <<pf, rooms, cave_nooks, rng, pc, path, reported, failed,
                   fog_of_war, hero, objects, monsters, calls, drunk, nb, scene, attempted>>

\* run, line 384: every room is stamped, _connect_all_rooms starts
RoomsStamped ==
    /\ pc = "stamp"
    /\ cur.i > Len(rooms)
    /\ cur' = [cur EXCEPT !.i = 1]
    /\ pc' = "connect_rooms"
    /\ UNCHANGED <<pf, data, rooms, cave_nooks, rng, path, reported, failed,
                   fog_of_war, hero, objects, monsters, calls, drunk, nb, scene, attempted>>

\* _connect_pair_rooms, lines 328-330: find is called
FindRooms ==
    /\ pc = "connect_rooms"
    /\ cur.i < Len(rooms)
    /\ pf' = start_find("rooms", cur.i)
    /\ pc' = "find_rooms"
    /\ attempted' = attempted \cup {<<"rooms", cur.i>>}
    /\ UNCHANGED <<data, rooms, cave_nooks, rng, cur, path, reported, failed,
                   fog_of_war, hero, objects, monsters, calls, drunk, nb, scene>>

\* _connect_pair_rooms, line 330: find returned a path
PathFoundRooms ==
    /\ pc = "find_rooms"
    /\ pf.st.status = "returned"
    /\ path' = pf.st.path
    /\ cur' = [cur EXCEPT !.k = 1]
    /\ pc' = "doors"
    /\ pf' = NoFind
    /\ UNCHANGED <<data, rooms, cave_nooks, rng, reported, failed,
                   fog_of_war, hero, objects, monsters, calls, drunk, nb, scene, attempted>>

\* _connect_pair_rooms, lines 330-335: one point of the path
ConnectPairRooms ==
    /\ pc = "doors"
    /\ cur.k <= Len(path)
    /\ data' = rooms_corridor(data, path[cur.k])
    /\ cur' = [cur EXCEPT !.k = cur.k + 1]
    /\ UNCHANGED <<pf, rooms, cave_nooks, rng, pc, path, reported, failed,
                   fog_of_war, hero, objects, monsters, calls, drunk, nb, scene, attempted>>

\* _connect_all_rooms: on to the next pair
PathDoored ==
    /\ pc = "doors"
    /\ cur.k > Len(path)
    /\ cur' = [cur EXCEPT !.i = cur.i + 1, !.k = 0]
    /\ path' = << >>
    /\ pc' = "connect_rooms"
    /\ UNCHANGED <<pf, data, rooms, cave_nooks, rng, reported, failed,
                   fog_of_war, hero, objects, monsters, calls, drunk, nb, scene, attempted>>

\* _connect_pair_rooms, lines 336-337: find raised, the pair is skipped
SkipPairRooms ==
    /\ pc = "find_rooms"
    /\ pf.st.status = "raised"
    /\ failed' = failed \cup {<<"rooms", cur.i>>}
    /\ cur' = except_PathNotFound(cur)
    /\ pc' = "connect_rooms"
    /\ pf' = NoFind
    /\ UNCHANGED <<data, rooms, cave_nooks, rng, path, reported,
                   fog_of_war, hero, objects, monsters, calls, drunk, nb, scene, attempted>>

\* run, lines 385-386: the rooms are connected
RoomsConnected ==
    /\ pc = "connect_rooms"
    /\ cur.i >= Len(rooms)
    /\ reported' = progress(reported, 70)
    /\ pc' = "clean_up"
    /\ UNCHANGED <<pf, data, rooms, cave_nooks, rng, cur, path, failed,
                   fog_of_war, hero, objects, monsters, calls, drunk, nb, scene, attempted>>

\* run, lines 386-387: the cleanup pass and the last report
CleanUp ==
    /\ pc = "clean_up"
    /\ data' = clean_up(data)
    /\ reported' = progress(reported, 100)
    /\ pc' = "generated"
    /\ UNCHANGED <<pf, rooms, cave_nooks, rng, cur, path, failed,
                   fog_of_war, hero, objects, monsters, calls, drunk, nb, scene, attempted>>

\* Dungeon.__init__, lines 425-431, after generator.run()
DungeonInit ==
    /\ pc = "generated"
    /\ fog_of_war' = Grid(data.width, data.height, TILE_NOT_VISITED)
    /\ objects' = << >>
    /\ monsters' = << >>
    /\ hero' = Rect_center(rooms[1])
    /\ cur' = [i |-> 1, x |-> 0, y |-> 0, k |-> 1]
    /\ pc' = "place_nooks"
    /\ UNCHANGED <<pf, data, rooms, cave_nooks, rng, drunk, path, reported, failed, calls,
                   nb, scene, attempted>>

\* _place_objects, lines 452-459: one nook
PlaceOnNook ==
    /\ pc = "place_nooks"
    /\ cur.k <= Len(cave_nooks)
    /\ LET st == place_on_nook([rng |-> rng, objects |-> objects, monsters |-> monsters],
                               cave_nooks[cur.k])
       IN  /\ rng' = st.rng
           /\ objects' = st.objects
           /\ monsters' = st.monsters
    /\ cur' = [cur EXCEPT !.k = cur.k + 1]
    /\ UNCHANGED <<pf, data, rooms, cave_nooks, pc, drunk, path, reported, failed,
                   fog_of_war, hero, calls, nb, scene, attempted>>

\* _place_objects, lines 460-469: the nooks are done
NooksPlaced ==
    /\ pc = "place_nooks"
    /\ cur.k > Len(cave_nooks)
    /\ cur' = [cur EXCEPT !.i = 1, !.k = 0]
    /\ pc' = "place_rooms"
    /\ UNCHANGED <<pf, data, rooms, cave_nooks, rng, drunk, path, reported, failed,
                   fog_of_war, hero, objects, monsters, calls, nb, scene, attempted>>

\* _place_objects, lines 470-482: one room
PlaceInRoom ==
    /\ pc = "place_rooms"
    /\ cur.i <= Len(rooms)
    /\ LET st == place_in_rooms([rng |-> rng, objects |-> objects, monsters |-> monsters],
                                rooms[cur.i])
       IN  /\ rng' = st.rng
           /\ objects' = st.objects
           /\ monsters' = st.monsters
    /\ cur' = [cur EXCEPT !.i = cur.i + 1]
    /\ UNCHANGED <<pf, data, rooms, cave_nooks, pc, drunk, path, reported, failed,
                   fog_of_war, hero, calls, nb, scene, attempted>>

\* Dungeon.__init__, line 433: the content is placed, update_visible()
DungeonReady ==
    /\ pc = "place_rooms"
    /\ cur.i > Len(rooms)
    /\ fog_of_war' = update_visible(fog_of_war, hero)
    /\ pc' = "game"
    /\ UNCHANGED <<pf, data, rooms, cave_nooks, rng, cur, drunk, path, reported, failed,
                   hero, objects, monsters, calls, nb, scene, attempted>>

\* BackgroundGeneration.run, scene_progress.py line 23: Dungeon(...) has
\* returned and _ready, that is _create_next_scene, is called with it;
\* line 37 stores the dungeon
CreateNextScene ==
    /\ pc = "game"
    /\ scene.thread = "run"
    /\ scene' = create_next_scene_data(scene, "Dungeon")
    /\ UNCHANGED <<pf, data, rooms, cave_nooks, rng, pc, cur, drunk, path, reported, failed,
                   fog_of_war, hero, objects, monsters, calls, nb, attempted>>

\* _create_next_scene, line 38: the flag is raised and the thread ends
SceneFinished ==
    /\ scene.thread = "flag"
    /\ scene' = create_next_scene_finished(scene)
    /\ UNCHANGED <<pf, data, rooms, cave_nooks, rng, pc, cur, drunk, path, reported, failed,
                   fog_of_war, hero, objects, monsters, calls, nb, attempted>>

\* RPG.update, rogue.py line 12, on the main thread while the progress scene
\* is shown: is_finished() returned True (a poll that returns False goes on
\* to SceneProgress.update, which does nothing: a stuttering step)
IsFinished ==
    /\ scene.rpg_scene = "SceneProgress"
    /\ scene.main = "update"
    /\ is_finished(scene)
    /\ scene' = [scene EXCEPT !.main = "next_scene"]
    /\ UNCHANGED <<pf, data, rooms, cave_nooks, rng, pc, cur, drunk, path, reported, failed,
                   fog_of_war, hero, objects, monsters, calls, nb, attempted>>

\* RPG.update, rogue.py lines 13-15: next_scene() builds the game scene
NextScene ==
    /\ scene.main = "next_scene"
    /\ scene' = next_scene(scene)
    /\ UNCHANGED <<pf, data, rooms, cave_nooks, rng, pc, cur, drunk, path, reported, failed,
                   fog_of_war, hero, objects, monsters, calls, nb, attempted>>

\* SceneGame.update, lines 30-42: the keys give a displacement, the hero
\* moves when the dungeon allows it (a refused move changes nothing)
HeroMove ==
    /\ scene.rpg_scene = "SceneGame"
    /\ calls < MaxCalls
    /\ \E hero_dx \in {-1, 0, 1}, hero_dy \in {-1, 0, 1} :
         /\ is_movement_possible(data, hero[1], hero[2], hero_dx, hero_dy).value
         /\ hero' = <<hero[1] + hero_dx, hero[2] + hero_dy>>
    /\ calls' = calls + 1
    /\ UNCHANGED <<pf, data, rooms, cave_nooks, rng, pc, cur, path, reported, failed,
                   fog_of_war, objects, monsters, drunk, nb, scene, attempted>>

\* Dungeon.update_visible, called on the assembled dungeon
UpdateVisible ==
    /\ pc = "game"
    /\ calls < MaxCalls
    /\ fog_of_war' = update_visible(fog_of_war, hero)
    /\ calls' = calls + 1
    /\ UNCHANGED <<pf, data, rooms, cave_nooks, rng, pc, cur, path, reported, failed,
                   hero, objects, monsters, drunk, nb, scene, attempted>>

Next ==
    \/ GenerateRoom
    \/ RoomsSampled
    \/ GenerateCaves
    \/ DrunkMan
    \/ NookCaves
    \/ CavesGenerated
    \/ FindCaves
    \/ FindStep
    \/ PathFoundCaves
    \/ ConnectPairCaves
    \/ PathCorridored
    \/ SkipPairCaves
    \/ WidenPath
    \/ NookPath
    \/ PathWidened
    \/ CavesConnected
    \/ CopyRoomData
    \/ RoomsStamped
    \/ FindRooms
    \/ PathFoundRooms
    \/ ConnectPairRooms
    \/ PathDoored
    \/ SkipPairRooms
    \/ RoomsConnected
    \/ CleanUp
    \/ DungeonInit
    \/ PlaceOnNook
    \/ NooksPlaced
    \/ PlaceInRoom
    \/ DungeonReady
    \/ CreateNextScene
    \/ SceneFinished
    \/ IsFinished
    \/ NextScene
    \/ HeroMove
    \/ UpdateVisible

Spec == Init /\ [][Next]_vars

-----------------------------------------------------------------------------
(* SpecTerm: the sampling loop of _Generator.run (lines 374-375) for a      *)
(* dungeon of TermSide x TermSide cells with the constants of the source    *)
(* (lines 160-163), the draws taken from the generator seeded with a member *)
(* of Seeds.  Each pass of `while True` in _generate_room draws a room and  *)
(* accepts or rejects it; nothing else ends the loop.                       *)

TermSide == 32

Defaults == [NUMBER_OF_ROOMS |-> NUMBER_OF_ROOMS, MIN_ROOM_SIZE |-> MIN_ROOM_SIZE,
             MAX_ROOM_SIZE |-> MAX_ROOM_SIZE,
             MIN_DISTANCE_BETWEEN_ROOMS |-> MIN_DISTANCE_BETWEEN_ROOMS]

TermInit ==
    /\ data = Grid(TermSide, TermSide, TILE_CAVE)
    /\ rooms = << >>
    /\ rng \in Seeds
    /\ pc = "sampling"
    /\ Idle

\* run, lines 374-375, and _generate_room: one pass of `while True`
SampleDraw ==
    /\ pc = "sampling"
    /\ Len(rooms) < Defaults.NUMBER_OF_ROOMS
    /\ LET pass == generate_room(Defaults, data, rooms, rng)
       IN  /\ rng' = pass.rng
           /\ rooms' = pass.rooms
    /\ UNCHANGED <<pf, data, cave_nooks, pc, cur, path, reported, failed,
                   fog_of_war, hero, objects, monsters, calls, drunk, nb, scene, attempted>>

TermNext == SampleDraw

SpecTerm == TermInit /\ [][TermNext]_vars

\* some outcome of the three draws of _random_room is a room that
\* _generate_room accepts next to the rooms accepted so far
SomeRoomFits ==
    \E size \in MIN_ROOM_SIZE..(MAX_ROOM_SIZE - 1) :
        \E x \in 0..(data.width - room_width(size) - 1) :
            \E y \in 0..(data.height - room_height(size) - 1) :
                generate_room_accepts(rooms, random_room(size, x, y),
                                      MIN_DISTANCE_BETWEEN_ROOMS)

\* C12 (as claimed): generation of a TermSide x TermSide dungeon with the
\* default parameters terminates: room sampling eventually accepts the last
\* of the NUMBER_OF_ROOMS rooms (the milestones and the Dungeon come only
\* after that).  The loop ends only by accepting rooms, so it terminates
\* only if, while rooms are missing, some draw can still be accepted.
C12_GenerationTerminates ==
    (pc = "sampling" /\ Len(rooms) < NUMBER_OF_ROOMS) => SomeRoomFits

-----------------------------------------------------------------------------
(* Properties of the assembled dungeon.                                     *)

Assembled == pc = "game"

\* the stages of run, in order, and the reports made by the end of each
Milestones == <<10, 30, 50, 70, 100>>

StageOf(p) ==
    CASE p = "sampling" -> 0
      [] p = "caves" -> 1
      [] p \in {"connect_caves", "find_caves", "corridor", "widen"} -> 2
      [] p \in {"stamp", "connect_rooms", "find_rooms", "doors"} -> 3
      [] p = "clean_up" -> 4
      [] p \in {"generated", "place_nooks", "place_rooms", "game"} -> 5

\* the cells a walker reaches from `seen` by steps to movement-allowed
\* cells: the four unit steps, or (diagonals) the eight moves of the hero
RECURSIVE WalkReach(_, _, _)
WalkReach(g, seen, diagonals) ==
    LET more == {q \in Cells(g) :
                    /\ q \notin seen
                    /\ g.data[q[2]][q[1]] \in MOVEMENT_ALLOWED
                    /\ \E p \in seen :
                          LET ddx == p[1] - q[1]
                              ddy == p[2] - q[2]
                          IN  IF diagonals
                              THEN ddx \in {-1, 0, 1} /\ ddy \in {-1, 0, 1}
                              ELSE ddx * ddx + ddy * ddy = 1}
    IN  IF more = {} THEN seen ELSE WalkReach(g, seen \cup more, diagonals)

\* the hero start position: Dungeon.__init__, line 431
hero_start == Rect_center(rooms[1])

\* the floor cells of a room
RoomInterior(room) ==
    {c \in Cells(data) : /\ room.x < c[1] /\ c[1] < room.x + room.width
                         /\ room.y < c[2] /\ c[2] < room.y + room.height}

\* the cells of a room's rectangle, bounds included
RoomFootprint(room) ==
    {c \in Cells(data) : /\ room.x <= c[1] /\ c[1] <= room.x + room.width
                         /\ room.y <= c[2] /\ c[2] <= room.y + room.height}

\* C3 (as claimed): after assembly the interior of every room is reachable
\* from the hero start position by steps on movement-allowed tiles, whatever
\* the random draws.  The steps allowed here are the eight moves of the hero,
\* which include the four unit steps.
C3_EveryRoomReachable ==
    (Assembled /\ calls = 0) =>
        \A i \in 1..Len(rooms) :
            RoomInterior(rooms[i]) \subseteq WalkReach(data, {hero_start}, TRUE)

\* C3 (amended): after assembly the interior of room i is reachable from the
\* hero start position by unit steps on movement-allowed tiles whenever the
\* room pass found a path for every consecutive pair of rooms before room i;
\* a pair whose path finding raised PathNotFoundError is skipped and the
\* rooms after it carry no such guarantee.
C3_RoomsReachableWhereConnected ==
    (Assembled /\ calls = 0) =>
        \A i \in 1..Len(rooms) :
            (\A j \in 1..(i - 1) : <<"rooms", j>> \notin failed)
                => RoomInterior(rooms[i]) \subseteq WalkReach(data, {hero_start}, FALSE)

C3_Witness ==
    /\ Assembled
    /\ <<"rooms", 3>> \in failed
    /\ RoomInterior(rooms[3]) \subseteq WalkReach(data, {hero_start}, FALSE)
    /\ RoomInterior(rooms[4]) \cap WalkReach(data, {hero_start}, TRUE) = {}

\* C4 (as claimed): after assembly every cell of the outer border of the
\* grid still holds the Cave tile.
C4_BorderStaysCave ==
    Assembled =>
        \A c \in Cells(data) :
            (c[1] = 0 \/ c[1] = data.width - 1 \/ c[2] = 0 \/ c[2] = data.height - 1)
                => data.data[c[2]][c[1]] = TILE_CAVE

\* C6: once stamping, the room pass and the cleanup pass have run, every
\* cell of every room's rectangle (bounds included) holds a floor, door or
\* wall tile, never Cave, Ground or Corridor.
C6_RoomFootprintIsBuilt ==
    StageOf(pc) = 5 =>
        \A i \in 1..Len(rooms) : \A c \in RoomFootprint(rooms[i]) :
            data.data[c[2]][c[1]] \in {TILE_FLOOR, TILE_DOOR, TILE_WALL_H, TILE_WALL_V,
                                       TILE_WALL_TL, TILE_WALL_TR, TILE_WALL_BL, TILE_WALL_BR}

C6_Witness ==
    /\ pc = "generated"
    /\ Len(rooms) = Scaled.NUMBER_OF_ROOMS
    /\ \E c \in RoomFootprint(rooms[2]) : data.data[c[2]][c[1]] = TILE_DOOR
    /\ \E c \in Cells(data) : data.data[c[2]][c[1]] = TILE_CORRIDOR

\* C7: is_movement_possible(x, y, dx, dy) never raises; it is false when
\* dx = 0 and dy = 0, false when (x + dx, y + dy) is outside the grid, and
\* otherwise true exactly when the tile there is door, corridor, floor or
\* ground.  Checked from every cell of the dungeon and one cell beyond each
\* edge, for displacements up to two cells.
C7_MovementPossible ==
    (Assembled /\ calls = 0) =>
        \A x \in -1..data.width, y \in -1..data.height, dx \in -2..2, dy \in -2..2 :
            LET r == is_movement_possible(data, x, y, dx, dy)
                nx == x + dx
                ny == y + dy
                inside == 0 <= nx /\ nx < data.width /\ 0 <= ny /\ ny < data.height
            IN  /\ ~r.raised
                /\ r.value = IF dx = 0 /\ dy = 0 THEN FALSE
                             ELSE IF ~inside THEN FALSE
                             ELSE data.data[ny][nx] \in {TILE_DOOR, TILE_CORRIDOR,
                                                         TILE_FLOOR, TILE_GROUND}

C7_Witness ==
    /\ Assembled
    /\ calls = 0
    /\ is_movement_possible(data, hero[1], hero[2], 1, 0).value
    /\ ~is_movement_possible(data, hero[1], hero[2], 0, 0).value
    /\ ~is_movement_possible(data, 0, 0, -1, 0).value
    /\ \E c \in Cells(data) : /\ data.data[c[2]][c[1]] = TILE_WALL_H
                              /\ ~is_movement_possible(data, c[1], c[2] - 1, 0, 1).value

\* C8 (as claimed): after update_visible() with the hero at (hx, hy), every
\* cell of the grid whose truncated Euclidean distance to the hero is at
\* most 7 is marked Visited.
C8_UpdateVisibleMarksDisc ==
    [][(DungeonReady \/ UpdateVisible) =>
          \A c \in Cells(fog_of_war') :
              isqrt((c[1] - hero'[1]) * (c[1] - hero'[1])
                    + (c[2] - hero'[2]) * (c[2] - hero'[2])) <= 7
                  => fog_of_war'.data[c[2]][c[1]] = TILE_VISITED]_vars

Visited(fog) == {c \in Cells(fog) : fog.data[c[2]][c[1]] = TILE_VISITED}

\* C9: fog of war is monotonic: over any step, update_visible() and the
\* moves of the hero included, a cell that is Visited stays Visited.
C9_FogMonotonic ==
    [][Visited(fog_of_war) \subseteq Visited(fog_of_war')]_vars

\* a state in which a cell is Visited that an update from the hero's
\* present position alone would not mark
C9_Witness ==
    /\ Assembled
    /\ calls >= 2
    /\ hero # hero_start
    /\ Visited(fog_of_war) # {}
    /\ \E c \in Visited(fog_of_war) :
          c \notin Visited(update_visible(Grid(data.width, data.height, TILE_NOT_VISITED), hero))

\* C10: with a progress sink supplied, the reports made so far are exactly
\* the milestones 10, 30, 50, 70, 100 of the stages already finished, in
\* that order: 10 once the rooms are sampled, 30 once the caves are sculpted,
\* 50 once the caves are connected, 70 once the rooms are stamped and
\* connected, 100 once the cleanup is done; a completed generation has
\* reported exactly these five values.
C10_ProgressMilestones ==
    (progress_callback_supplied /\ pc # "find") =>
        /\ reported = SubSeq(Milestones, 1, StageOf(pc))
        /\ (Len(reported) >= 1 => Len(rooms) = Scaled.NUMBER_OF_ROOMS)

C10_Witness ==
    /\ pc = "generated"
    /\ reported = <<10, 30, 50, 70, 100>>
    /\ Len(rooms) = Scaled.NUMBER_OF_ROOMS

\* C13: in every interleaving of the generation thread with the main update
\* loop, whenever is_finished() returns true the stored dungeon is a fully
\* assembled Dungeon (structure generated, progress 100 reported, content
\* placed, the constructor returned), so RPG.update never builds the game
\* scene from a missing or partially generated dungeon.
C13_FinishedMeansAssembled ==
    /\ (is_finished(scene) \/ scene.main = "next_scene") =>
           /\ scene.data = "Dungeon"
           /\ Assembled
           /\ reported = Milestones
    /\ scene.main # "raised"
    /\ scene.rpg_scene = "SceneGame" => (scene.dungeon = "Dungeon" /\ Assembled)

\* witness of C13: the game scene built from the handed-over dungeon, and
\* the hero moved in it
C13_Witness ==
    /\ scene.rpg_scene = "SceneGame"
    /\ scene.dungeon = "Dungeon"
    /\ scene.finished
    /\ hero # hero_start

\* C14 (as claimed): the cleanup pass converts to Ground every Cave tile in
\* the interior of the grid (1 <= x <= width - 2, 1 <= y <= height - 2) that
\* has at least one 8-neighbour classified as Corridor, and changes no other
\* cell; Corridor tiles are left as Corridor.
C14_CleanUpOpensCaves ==
    [][CleanUp =>
          \A c \in Cells(data) :
              LET interior == /\ 1 <= c[1] /\ c[1] <= data.width - 2
                              /\ 1 <= c[2] /\ c[2] <= data.height - 2
                  by_corridor == \E n \in Cells(data) :
                                     /\ n # c
                                     /\ n[1] - c[1] \in {-1, 0, 1}
                                     /\ n[2] - c[2] \in {-1, 0, 1}
                                     /\ data.data[n[2]][n[1]] = TILE_CORRIDOR
              IN  data'.data[c[2]][c[1]] =
                      IF interior /\ data.data[c[2]][c[1]] = TILE_CAVE /\ by_corridor
                      THEN TILE_GROUND
                      ELSE data.data[c[2]][c[1]]]_vars

\* the weight the room pass is said to give a neighbour of each type
RoomWeight(tile) ==
    CASE tile = TILE_GROUND -> 5
      [] tile \in {TILE_FLOOR, TILE_CORRIDOR, TILE_DOOR} -> 1
      [] tile \in {TILE_WALL_H, TILE_WALL_V} -> 50
      [] tile \in {TILE_WALL_TL, TILE_WALL_TR, TILE_WALL_BL, TILE_WALL_BR} -> 70
      [] tile = TILE_CAVE -> 10
      [] OTHER -> 0

\* C15 (as claimed): for every in-bounds point p, _cost_rooms(p) is the sum
\* over the in-bounds 8-neighbours of p of the weight of the neighbour's
\* tile: ground 5, floor 1, corridor 1, door 1, horizontal or vertical wall
\* 50, each corner wall 70, cave 10.  Checked on the grids the room pass
\* searches.
C15_CostRoomsWeights ==
    pc = "find_rooms" =>
        \A p \in Cells(data) :
            LET around == Around(p[1], p[2])
            IN  cost_rooms(data, p) =
                    SumWeights([k \in 1..8 |->
                                   IF Grid_in_bounds(data, around[k][1], around[k][2])
                                   THEN RoomWeight(data.data[around[k][2]][around[k][1]])
                                   ELSE 0], 1)

\* C16 (as claimed): every point appended to the nook list, during cave
\* sculpting (_generate_caves) or corridor widening (_connect_pair_caves),
\* is the farthest tile carved by that erosion walk and lies at truncated
\* distance at least 2 from the seed point of the walk.
C16_NooksFarFromSeed ==
    [][((NookCaves \/ NookPath) /\ cave_nooks' # cave_nooks) =>
          LET nook == cave_nooks'[Len(cave_nooks')]
              far(p) == Point_dst(p[1], p[2], drunk.start[1], drunk.start[2])
          IN  /\ nook \in drunk.hewn
              /\ \A p \in drunk.hewn : far(p) <= far(nook)
              /\ far(nook) >= 2]_vars

\* C17: a PathNotFound of the cave pass or of the room pass does not
\* propagate: while find runs for a pair, and when the pair is skipped, the
\* tile grid and the nook list stay as they were when the attempt began, the
\* pass goes on with the next pair, and once a pass is over every pair of
\* the sorted room list after a failed one has been attempted
CavePassOver == pc \notin {"sampling", "caves", "connect_caves", "find_caves", "corridor", "widen"}

RoomPassOver == pc \in {"clean_up", "generated", "place_nooks", "place_rooms", "game"}

PassOver(kind) == IF kind = "caves" THEN CavePassOver ELSE RoomPassOver

C17_PathNotFoundSkipsThePair ==
    [][/\ (pc \in {"find_caves", "find_rooms"} /\ pf.st.status # "returned") =>
              /\ data' = data
              /\ cave_nooks' = cave_nooks
       /\ (SkipPairCaves \/ SkipPairRooms) =>
              /\ pc' \in {"connect_caves", "connect_rooms"}
              /\ cur'.i = cur.i + 1
              /\ rooms' = rooms
       /\ \A f \in failed' : PassOver(f[1])' =>
              \A j \in (f[2] + 1)..(Len(rooms') - 1) : <<f[1], j>> \in attempted']_vars

C17_Witness ==
    \E f \in failed : /\ f[2] < Len(rooms) - 1
                      /\ PassOver(f[1])
                      /\ <<f[1], f[2] + 1>> \in attempted

\* C18: the hero always stands on a walkable tile: from Dungeon.__init__ on,
\* through the placement of the objects and every tick of the game in which
\* a displacement is applied only when is_movement_possible accepts it, the
\* position of the hero is inside the grid on a door, corridor, floor or
\* ground tile
HeroPlaced == pc \in {"place_nooks", "place_rooms", "game"}

C18_HeroOnWalkableTile ==
    HeroPlaced =>
        /\ 0 <= hero[1] /\ hero[1] < data.width
        /\ 0 <= hero[2] /\ hero[2] < data.height
        /\ data.data[hero[2]][hero[1]] \in {TILE_DOOR, TILE_CORRIDOR, TILE_FLOOR, TILE_GROUND}

\* after MaxCalls ticks of the game the hero has left the room of the start
C18_Witness ==
    /\ scene.rpg_scene = "SceneGame"
    /\ calls = MaxCalls
    /\ hero \notin RoomFootprint(rooms[1])

\* C19 (as claimed): every Loot and every Monster placed by _place_objects,
\* on a recorded nook or at a random point of a room, is at a position inside
\* the grid whose tile in the finished grid is door, corridor, floor or
\* ground, never a wall and never unhewn Cave
OnWalkableTile(o) ==
    /\ 0 <= o.x /\ o.x < data.width
    /\ 0 <= o.y /\ o.y < data.height
    /\ data.data[o.y][o.x] \in MOVEMENT_ALLOWED

C19_ContentOnWalkableTiles ==
    HeroPlaced =>
        /\ \A k \in 1..Len(objects) : OnWalkableTile(objects[k])
        /\ \A k \in 1..Len(monsters) : OnWalkableTile(monsters[k])

====
